---- MODULE Spec2Model ----
(***************************************************************************)
(* Model of the handbook chatbot pipeline of mini-capstone/src:            *)
(*   ingest.py  (chunker), index.py (doc2query + embedding index),         *)
(*   ask.py     (retriever + answer synthesizer), score.py (evaluator).    *)
(*                                                                         *)
(* Text representation.  A line of text is a sequence of tokens; a token   *)
(* (a TLA+ string) is one whitespace character, or a maximal run of        *)
(* letters, of digits, or of other characters.  A text is the sequence of  *)
(* its lines, i.e. what str.splitlines() returns.  len() of a text counts  *)
(* the characters of its tokens plus one newline between consecutive       *)
(* lines.                                                                  *)
(***************************************************************************)
EXTENDS Integers, Sequences, FiniteSets, TLC

VARIABLES
    c_text,        \* chunker input: the document text (sequence of lines)
    c_filename,    \* chunker input: the file name (sequence of stem words)
    c_max_chars,   \* chunker input: the character budget
    c_out,         \* chunker output: sequence of [section_title, text]
    c_pc,          \* "input" before iter_section_chunks ran, "done" after
    chunks_file,   \* index/chunks.jsonl: sequence of chunk records
    questions_file,\* index/questions.jsonl: sequence of question records
    emb_file,      \* index/embeddings.npy: [ndim, rows]
    meta_file,     \* index/meta.json
    argsort_ties,  \* how this build's np.argsort orders equal keys
    out,           \* what the last program run did (its output, its calls)
    session,       \* the running ask.py process: the index it loaded
    log            \* per query text, what retrieval returned in this session

cvars == <<c_text, c_filename, c_max_chars, c_out, c_pc>>
files == <<chunks_file, questions_file, emb_file, meta_file>>
svars == <<session, log>>
vars == <<cvars, files, argsort_ties, out, svars>>

(***************************************************************************)
(* Generic helpers                                                         *)
(***************************************************************************)
RECURSIVE SumSeq(_)
SumSeq(s) == IF s = <<>> THEN 0 ELSE Head(s) + SumSeq(Tail(s))

RECURSIVE Flatten(_)
Flatten(ss) == IF ss = <<>> THEN <<>> ELSE Head(ss) \o Flatten(Tail(ss))

SeqsUpTo(S, n) == UNION {[1..k -> S] : k \in 0..n}

\* the sequence s with every element computed (a list, not a generator)
List(s) == SubSeq(s, 1, Len(s))

(***************************************************************************)
(* Strings: str.strip(), len()                                             *)
(***************************************************************************)
\* the whitespace characters str.strip() removes that can occur inside a line
Whitespace == {" ", "\t", "\n"}

RECURSIVE lstrip(_)
lstrip(line) ==
    IF line # <<>> /\ Head(line) \in Whitespace THEN lstrip(Tail(line)) ELSE line

RECURSIVE rstrip(_)
rstrip(line) ==
    IF line # <<>> /\ line[Len(line)] \in Whitespace
    THEN rstrip(SubSeq(line, 1, Len(line) - 1))
    ELSE line

\* str.strip() of a single line
strip(line) == rstrip(lstrip(line))

\* len() of a single line
LineLen(line) == SumSeq([i \in 1..Len(line) |-> Len(line[i])])

\* len() of a text: its lines joined by "\n"
TextLen(lines) ==
    IF lines = <<>> THEN 0
    ELSE SumSeq([i \in 1..Len(lines) |-> LineLen(lines[i])]) + (Len(lines) - 1)

(***************************************************************************)
(* ingest.py : configuration                                               *)
(***************************************************************************)
MAX_CHARS == 3000

\* file names are written as the sequence of the "_"-separated words of the
\* stem; the extension is always ".txt" (load_text_files globs "*.txt")
F_conduct == <<"student", "conduct", "code">>
F_hazing  == <<"hazing", "statement">>
F_notes   == <<"notes">>

MULTI_SECTION_FILES ==
    { F_conduct,
      <<"sexual", "misconduct", "title", "ix">>,
      <<"activities", "and", "organizations">>,
      <<"living", "on", "campus">> }

\* letter runs made only of the letters IVXLCDM
RomanNumerals == {"I", "II", "III", "IV", "V", "X", "MIX"}

\* ROMAN_HEADER_RE.match(stripped): "^(?P<num>[IVXLCDM]+)\.\s+(?P<title>.+)$"
\* applied to a stripped line; yields m.group("title").strip(), or <<>> when
\* the line does not match (a matching title is never empty)
ROMAN_HEADER_RE(stripped) ==
    IF /\ Len(stripped) >= 4
       /\ stripped[1] \in RomanNumerals
       /\ stripped[2] = "."
       /\ stripped[3] \in Whitespace
    THEN strip(SubSeq(stripped, 3, Len(stripped)))
    ELSE <<>>

(***************************************************************************)
(* ingest.py : normalize_newlines                                          *)
(***************************************************************************)
RECURSIVE normalize_loop(_, _, _)
normalize_loop(lines, i, blank_streak) ==
    IF i > Len(lines) THEN <<>>
    ELSE IF strip(lines[i]) = <<>>
         THEN (IF blank_streak + 1 = 1 THEN << <<>> >> ELSE <<>>)
              \o normalize_loop(lines, i + 1, blank_streak + 1)
         ELSE <<lines[i]>> \o normalize_loop(lines, i + 1, 0)

\* "\n".join(normalized_lines) read back with splitlines(): a final empty
\* line only contributes a trailing "\n", which splitlines() does not return
splitlines_of_join(lines) ==
    IF lines # <<>> /\ lines[Len(lines)] = <<>>
    THEN SubSeq(lines, 1, Len(lines) - 1)
    ELSE lines

normalize_newlines(text) == splitlines_of_join(normalize_loop(text, 1, 0))

(***************************************************************************)
(* ingest.py : paragraphs                                                  *)
(***************************************************************************)
\* p.strip() of a paragraph given by its lines: leading whitespace of the
\* first line and trailing whitespace of the last line go
strip_text(lines) ==
    IF lines = <<>> THEN <<>>
    ELSE IF Len(lines) = 1 THEN <<strip(lines[1])>>
    ELSE <<lstrip(lines[1])>> \o SubSeq(lines, 2, Len(lines) - 1)
         \o <<rstrip(lines[Len(lines)])>>

\* [p.strip() for p in text.split("\n\n") if p.strip()] on normalized lines:
\* in normalized text every blank line is "" and no two are adjacent, so the
\* "\n\n" separators are exactly the interior blank lines; a blank line at
\* either end is removed by strip().  The paragraphs are the maximal runs of
\* non-blank lines.
RECURSIVE split_paragraphs(_, _, _)
split_paragraphs(lines, i, run) ==
    IF i > Len(lines)
    THEN (IF run # <<>> THEN <<strip_text(run)>> ELSE <<>>)
    ELSE IF lines[i] = <<>>
         THEN (IF run # <<>> THEN <<strip_text(run)>> ELSE <<>>)
              \o split_paragraphs(lines, i + 1, <<>>)
         ELSE split_paragraphs(lines, i + 1, Append(run, lines[i]))

\* "\n\n".join(current): the paragraphs' lines with one empty line between
RECURSIVE join_paragraphs(_)
join_paragraphs(current) ==
    IF current = <<>> THEN <<>>
    ELSE IF Len(current) = 1 THEN current[1]
    ELSE current[1] \o << <<>> >> \o join_paragraphs(Tail(current))

(***************************************************************************)
(* ingest.py : _split_paragraphs_into_chunks                               *)
(***************************************************************************)
\* mutant: the test forgets that the current chunk may be empty
chunk_overflows_empty(current, cur_len, p_len, max_chars) ==
    cur_len + p_len + 2 > max_chars

\* mutant: the separator is left out of the test
chunk_overflows_nosep(current, cur_len, p_len, max_chars) ==
    current # <<>> /\ cur_len + p_len > max_chars

\* "if current and cur_len + p_len + 2 > max_chars"
chunk_overflows(current, cur_len, p_len, max_chars) ==
    current # <<>> /\ cur_len + p_len + 2 > max_chars

RECURSIVE split_chunks_loop(_, _, _, _, _)
split_chunks_loop(paragraphs, i, current, cur_len, max_chars) ==
    IF i > Len(paragraphs)
    THEN (IF current # <<>> THEN <<join_paragraphs(current)>> ELSE <<>>)
    ELSE LET p == paragraphs[i]
             p_len == TextLen(p)
         IN  IF chunk_overflows(current, cur_len, p_len, max_chars)
             THEN <<join_paragraphs(current)>>
                  \o split_chunks_loop(paragraphs, i + 1, <<p>>, p_len, max_chars)
             ELSE split_chunks_loop(paragraphs, i + 1, Append(current, p),
                                    cur_len + p_len + 2, max_chars)

split_paragraphs_into_chunks(paragraphs, max_chars) ==
    split_chunks_loop(paragraphs, 1, <<>>, 0, max_chars)

(***************************************************************************)
(* ingest.py : iter_section_chunks                                         *)
(***************************************************************************)
\* str.title() on one lowercase word of a file stem
TitleWord(w) ==
    CASE w = "student" -> "Student"
      [] w = "conduct" -> "Conduct"
      [] w = "code"    -> "Code"
      [] w = "hazing"  -> "Hazing"
      [] w = "statement" -> "Statement"
      [] w = "notes"   -> "Notes"
      [] OTHER -> w

\* os.path.splitext(filename)[0].replace("_", " ").title()
RECURSIVE base_title_of(_)
base_title_of(filename) ==
    IF filename = <<>> THEN <<>>
    ELSE IF Len(filename) = 1 THEN <<TitleWord(filename[1])>>
    ELSE <<TitleWord(filename[1]), " ">> \o base_title_of(Tail(filename))

\* the chunks of one section: paragraphs of section_text, packed
section_chunks(title, section_lines, max_chars) ==
    LET paragraphs == split_paragraphs(section_lines, 1, <<>>)
        texts == split_paragraphs_into_chunks(paragraphs, max_chars)
    IN  List([k \in 1..Len(texts) |-> [section_title |-> title, text |-> texts[k]]])

\* current_title before the first header line (Python None, falsy like "")
NoTitle == <<>>

\* "if current_title and current_lines": the flush made when a header is met
flush_at_header(current_title, current_lines) ==
    current_title # NoTitle /\ current_lines # <<>>

RECURSIVE section_loop(_, _, _, _, _, _)
section_loop(lines, i, current_title, current_lines, base_title, max_chars) ==
    IF i > Len(lines)
    THEN \* flush last section
         IF current_lines # <<>>
         THEN section_chunks(IF current_title # NoTitle THEN current_title
                             ELSE base_title,
                             current_lines, max_chars)
         ELSE <<>>
    ELSE LET m == ROMAN_HEADER_RE(strip(lines[i]))
         IN  IF m # <<>>
             THEN (IF flush_at_header(current_title, current_lines)
                   THEN section_chunks(current_title, current_lines, max_chars)
                   ELSE <<>>)
                  \o section_loop(lines, i + 1, m, <<>>, base_title, max_chars)
             ELSE section_loop(lines, i + 1, current_title,
                               Append(current_lines, lines[i]),
                               base_title, max_chars)

\* mutant: the file is never recognised as multi-section
iter_section_chunks_flat(text, filename, max_chars) ==
    section_chunks(base_title_of(filename), normalize_newlines(text), max_chars)

\* the (section_title, chunk_text) pairs iter_section_chunks yields, in order
iter_section_chunks(text, filename, max_chars) ==
    LET norm == normalize_newlines(text)
        multi == filename \in MULTI_SECTION_FILES
        base_title == base_title_of(filename)
    IN  IF ~multi
        THEN section_chunks(base_title, norm, max_chars)
        ELSE section_loop(norm, 1, NoTitle, <<>>, base_title, max_chars)

(***************************************************************************)
(* ingest.py : main                                                        *)
(***************************************************************************)
\* files are [exists, content]; a file that was never written:
NoFile == [ exists |-> FALSE, content |-> <<>> ]

\* no ask.py process is running
NoSession == [ loaded |-> FALSE ]

File(content) == [ exists |-> TRUE, content |-> content ]

\* URLS.get(filename, ""): the handbook URL configured for a file name
URLS(filename) ==
    CASE filename = F_hazing  -> "https://centre.smartcatalogiq.com/hazing-statement"
      [] filename = F_conduct -> "https://centre.smartcatalogiq.com/student-conduct"
      [] OTHER -> ""

\* f"chunk_{chunk_id}"
ChunkId(n) == <<"chunk_", ToString(n)>>

\* sorted(data_dir.glob("*.txt")): the file names in lexicographic order
\* ("hazing_statement.txt" < "notes.txt" < "student_conduct_code.txt")
FileOrder == <<F_hazing, F_notes, F_conduct>>

load_text_files(data_dir) ==
    SelectSeq(FileOrder, LAMBDA f : f \in DOMAIN data_dir)

\* a token standing for bytes of a file that are not valid UTF-8
InvalidBytes == "<bytes that are not UTF-8>"

\* whether path.read_text(encoding="utf-8") returns (it raises
\* UnicodeDecodeError otherwise)
decodes(text) ==
    \A i \in 1..Len(text) : \A t \in 1..Len(text[i]) : text[i][t] # InvalidBytes

\* mutant: the numbering starts again at 0 in every file
file_records_restart(filename, text, chunk_id) ==
    LET pairs == iter_section_chunks(text, filename, MAX_CHARS)
    IN  [k \in 1..Len(pairs) |->
            [ chunk_id      |-> ChunkId(k - 1),
              section_title |-> pairs[k].section_title,
              source_file   |-> filename,
              url           |-> URLS(filename),
              text          |-> pairs[k].text ]]

\* the records main writes for one file, numbered from chunk_id on
file_records(filename, text, chunk_id) ==
    LET pairs == iter_section_chunks(text, filename, MAX_CHARS)
    IN  [k \in 1..Len(pairs) |->
            [ chunk_id      |-> ChunkId(chunk_id + k - 1),
              section_title |-> pairs[k].section_title,
              source_file   |-> filename,
              url           |-> URLS(filename),
              text          |-> pairs[k].text ]]

\* the loop of main over the generator load_text_files, from file i on: the
\* records written; a file that does not decode raises out of the generator
\* and ends the loop (what was written before stays in chunks.jsonl)
RECURSIVE ingest_loop(_, _, _, _)
ingest_loop(data_dir, names, i, chunk_id) ==
    IF i > Len(names) THEN <<>>
    ELSE IF ~decodes(data_dir[names[i]]) THEN <<>>
    ELSE LET recs == file_records(names[i], data_dir[names[i]], chunk_id)
         IN  recs \o ingest_loop(data_dir, names, i + 1, chunk_id + Len(recs))

\* how main ends on data_dir
ingest_status(data_dir) ==
    IF \A f \in DOMAIN data_dir : decodes(data_dir[f])
    THEN "ok" ELSE "decode_error"

\* the content of index/chunks.jsonl after main ran on data_dir
ingest_main(data_dir) == ingest_loop(data_dir, load_text_files(data_dir), 1, 0)

(***************************************************************************)
(* index.py : tokens                                                       *)
(***************************************************************************)
STOPWORDS ==
    { "the", "and", "or", "a", "an", "of", "to", "in", "for", "on",
      "at", "by", "is", "are", "be", "this", "that", "it", "with",
      "as", "from", "about",
      "what", "which", "who", "whom", "when", "where", "why", "how",
      "can", "could", "would", "should", "may" }

\* the digit runs that occur in the modelled texts, as digit sequences
DigitsOf(tok) ==
    CASE tok = "1"  -> <<1>>
      [] tok = "2"  -> <<2>>
      [] tok = "3"  -> <<3>>
      [] tok = "5"  -> <<5>>
      [] tok = "12" -> <<1, 2>>
      [] OTHER -> <<>>

IsDigits(tok) == DigitsOf(tok) # <<>>

\* runs of characters that are neither letters, digits nor whitespace
Punctuation == {".", "?", "-", "*", ","}

IsLetters(tok) == tok \notin Whitespace /\ tok \notin Punctuation /\ ~IsDigits(tok)

\* str.lower() of a run of letters
Lower(tok) ==
    CASE tok = "Hazing"  -> "hazing"
      [] tok = "Is"      -> "is"
      [] tok = "Up"      -> "up"
      [] tok = "Are"     -> "are"
      [] tok = "Appeals" -> "appeals"
      [] tok = "Do"      -> "do"
      [] tok = "What"    -> "what"
      [] tok = "Scope"   -> "scope"
      [] tok = "Attendance" -> "attendance"
      [] tok = "I"       -> "i"
      [] tok = "II"      -> "ii"
      [] OTHER -> tok

\* all tokens of a text given by its lines
TextTokens(lines) == Flatten(lines)

\* _tokenize: re.findall(r"[A-Za-z]+", text.lower()) without the stopwords,
\* as the set the callers turn it into; `toks` are the tokens of the text
tokenize_set(toks) ==
    { Lower(toks[i]) : i \in {j \in 1..Len(toks) : IsLetters(toks[j])} }
        \ STOPWORDS

\* mutant: one shared content word is enough
has_basic_overlap_one(q_toks, c_toks, min_overlap) ==
    Cardinality(tokenize_set(q_toks) \cap tokenize_set(c_toks)) >= 1

\* _has_basic_overlap(question, chunk_text, min_overlap)
has_basic_overlap(q_toks, c_toks, min_overlap) ==
    Cardinality(tokenize_set(q_toks) \cap tokenize_set(c_toks)) >= min_overlap

\* n in s, for sequences of digits
IsSubstring(n, s) ==
    \E k \in 0..(Len(s) - Len(n)) : SubSeq(s, k + 1, k + Len(n)) = n

\* "n not in chunk_text" negated, for a digit run n: a run of digits occurs
\* in a text exactly when it occurs inside one of the text's digit runs
digits_in_text(n, c_toks) ==
    \E i \in 1..Len(c_toks) :
        IsDigits(c_toks[i]) /\ IsSubstring(DigitsOf(n), DigitsOf(c_toks[i]))

\* _question_supported_by_chunk(question, chunk_text)
question_supported_by_chunk(q_toks, c_toks) ==
    /\ \A i \in 1..Len(q_toks) :
          IsDigits(q_toks[i]) => digits_in_text(q_toks[i], c_toks)
    /\ has_basic_overlap(q_toks, c_toks, 2)

(***************************************************************************)
(* index.py : generate_questions_for_chunk, build_questions                *)
(***************************************************************************)
N_QUESTIONS_PER_CHUNK == 3

\* line[0] in "-*0123456789"
bullet_start(tok) == IsDigits(tok) \/ tok \in {"-", "*"}

\* a token made only of the characters "-*0123456789. "
bullet_chars(tok) == IsDigits(tok) \/ tok \in {"-", "*", ".", " "}

RECURSIVE lstrip_bullets(_)
lstrip_bullets(line) ==
    IF line # <<>> /\ bullet_chars(Head(line))
    THEN lstrip_bullets(Tail(line))
    ELSE line

\* while line and line[0] in "-*0123456789": line = line.lstrip(...).strip()
RECURSIVE strip_numbering(_)
strip_numbering(line) ==
    IF line # <<>> /\ bullet_start(Head(line))
    THEN strip_numbering(strip(lstrip_bullets(line)))
    ELSE line

\* s[:n]
Take(s, n) == SubSeq(s, 1, IF Len(s) < n THEN Len(s) ELSE n)

\* the list generate_questions_for_chunk returns when the backend answers
\* `raw` (a text: sequence of lines)
generate_questions_for_chunk(raw) ==
    LET stripped  == [i \in 1..Len(raw) |-> strip(raw[i])]
        lines     == SelectSeq(stripped, LAMBDA l : l # <<>>)
        unnumbered == [i \in 1..Len(lines) |-> strip_numbering(lines[i])]
        questions == SelectSeq(unnumbered, LAMBDA l : l # <<>>)
    IN  Take(questions, N_QUESTIONS_PER_CHUNK)

\* mutant: the survivors are numbered from 1
QuestionId_from_one(chunk_id, i) == chunk_id \o <<"_q", ToString(i + 1)>>

\* f"{chunk_id}_q{i}"
QuestionId(chunk_id, i) == chunk_id \o <<"_q", ToString(i)>>

\* the records build_questions appends for one chunk
chunk_questions(chunk, raw) ==
    LET raw_questions == generate_questions_for_chunk(raw)
        stripped == [i \in 1..Len(raw_questions) |-> strip(raw_questions[i])]
        clean == Take(SelectSeq(stripped, LAMBDA q :
                        q # <<>> /\ question_supported_by_chunk(
                                        q, TextTokens(chunk.text))),
                      N_QUESTIONS_PER_CHUNK)
    IN  List([i \in 1..Len(clean) |->
            [ question_id   |-> QuestionId(chunk.chunk_id, i - 1),
              chunk_id      |-> chunk.chunk_id,
              section_title |-> chunk.section_title,
              question      |-> clean[i] ]])

\* mutant: the loop ends at the first chunk without a supported question
RECURSIVE build_questions_from_break(_, _, _)
build_questions_from_break(chunks, raws, k) ==
    IF k > Len(chunks) THEN <<>>
    ELSE IF chunk_questions(chunks[k], raws[k]) = <<>> THEN <<>>
    ELSE chunk_questions(chunks[k], raws[k])
         \o build_questions_from_break(chunks, raws, k + 1)

\* build_questions(chunks) when the backend answers raws[k] for chunk k
RECURSIVE build_questions_from(_, _, _)
build_questions_from(chunks, raws, k) ==
    IF k > Len(chunks) THEN <<>>
    ELSE chunk_questions(chunks[k], raws[k])
         \o build_questions_from(chunks, raws, k + 1)

build_questions(chunks, raws) == build_questions_from(chunks, raws, 1)

(***************************************************************************)
(* The embedding backend (ollama_embed) on the texts of the modelled runs  *)
(***************************************************************************)
\* questions and user queries
Q_hazing  == <<"Is", " ", "hazing", " ", "banned", "?">>
Q_hazing2 == <<"Is", " ", "hazing", " ", "banned", " ", "here", "?">>
Q_abs12   == <<"Are", " ", "12", " ", "absences", " ", "allowed", "?">>
Q_abs5    == <<"Are", " ", "5", " ", "absences", " ", "allowed", "?">>
Q_abs2    == <<"Are", " ", "2", " ", "absences", " ", "allowed", "?">>
Q_appeal  == <<"Do", " ", "appeals", " ", "go", " ", "to", " ", "dean", "?">>
Q_weather == <<"What", " ", "is", " ", "the", " ", "weather", "?">>
Q_dean    == <<"Is", " ", "the", " ", "dean", " ", "banned", "?">>
U_hazing  == <<"is", " ", "hazing", " ", "banned">>
U_absent  == <<"how", " ", "many", " ", "absences">>
U_weather == <<"weather">>
U_skip    == <<"can", " ", "I", " ", "skip">>
UserQueries == {U_hazing, U_absent, U_weather, U_skip}

\* the embedding backend: the vector it returns for a text (of integer norm,
\* or the zero vector).  U_skip is at cosine 20/29 = 0.689... of Q_abs2:
\* MIN_SIMILARITY in hundredths.
ollama_embed(text) ==
    CASE text = Q_hazing  -> <<3, 4>>
      [] text = Q_hazing2 -> <<4, 3>>
      [] text = Q_abs12   -> <<0, 5>>
      [] text = Q_abs2    -> <<5, 0>>
      [] text = Q_appeal  -> <<4, 3>>
      [] text = U_hazing  -> <<3, 4>>
      [] text = U_absent  -> <<0, 5>>
      [] text = U_skip    -> <<20, -21>>
      [] OTHER -> <<0, 0>>

(***************************************************************************)
(* index.py : build_embeddings, save_embeddings                            *)
(***************************************************************************)
EMBED_MODEL == "mxbai-embed-large:latest"
EMBED_NORMALIZED == FALSE

\* np.array(vectors, dtype="float32"): an (N, d) matrix, but the 1-D array
\* of shape (0,) when there is no vector
np_array(vectors) ==
    [ ndim |-> IF vectors = <<>> THEN 1 ELSE 2, rows |-> vectors ]

\* the embedding requests build_embeddings makes when none fails: one
\* embed_text(q["question"]) per question, in order
embed_calls(questions) ==
    List([i \in 1..Len(questions) |->
            [ model |-> EMBED_MODEL, text |-> questions[i].question ]])

\* mutant: a question text that was embedded before is not embedded again
build_embeddings_distinct(questions) ==
    LET firsts == SelectSeq([i \in 1..Len(questions) |-> i],
                     LAMBDA i : \A j \in 1..(i - 1) :
                         questions[j].question # questions[i].question)
    IN  np_array(List([k \in 1..Len(firsts) |->
                          ollama_embed(questions[firsts[k]].question)]))

\* build_embeddings(questions) when every embed_text call succeeds
\* (EMBED_NORMALIZED is False)
build_embeddings(questions) ==
    np_array(List([i \in 1..Len(questions) |->
                      ollama_embed(questions[i].question)]))

\* the meta record save_embeddings writes
embedding_meta(embeddings) ==
    [ embedding_model |-> EMBED_MODEL,
      dimension |-> IF embeddings.ndim = 2 THEN Len(embeddings.rows[1]) ELSE 0,
      normalized |-> EMBED_NORMALIZED ]

(***************************************************************************)
(* ask.py : configuration, loaders                                         *)
(***************************************************************************)
GENERATOR_MODEL == "qwen2.5:1.5b"
TOP_K_QUESTIONS == 5
\* similarities are kept in hundredths: MIN_SIMILARITY = 0.68
MIN_SIMILARITY == 68

\* load_chunks: chunks_by_id[rec["chunk_id"]] = rec, a later line winning
load_chunks(chunks) ==
    [ id \in {chunks[i].chunk_id : i \in 1..Len(chunks)} |->
        chunks[CHOOSE i \in 1..Len(chunks) :
                  /\ chunks[i].chunk_id = id
                  /\ \A j \in (i + 1)..Len(chunks) : chunks[j].chunk_id # id] ]
        @@ <<>>

(***************************************************************************)
(* ask.py : cosine_sim_matrix                                              *)
(***************************************************************************)
Dot(v, w) == SumSeq([i \in 1..Len(v) |-> v[i] * w[i]])

\* np.linalg.norm of an integer vector whose norm is an integer
Norm(v) ==
    LET d == Dot(v, v)
    IN  CHOOSE n \in 0..d : n * n <= d /\ d < (n + 1) * (n + 1)

\* (row . vec) / ((|row| + 1e-8) * (|vec| + 1e-8)) in hundredths; with a zero
\* vector the numerator is 0 and the epsilons make the quotient 0
cosine(row, vec) ==
    LET denom == Norm(row) * Norm(vec)
    IN  IF denom = 0 THEN 0 ELSE (100 * Dot(row, vec)) \div denom

\* sims of cosine_sim_matrix(vec, mat) for a 2-D mat
cosine_sim_matrix(vec, mat) ==
    List([i \in 1..Len(mat.rows) |-> cosine(mat.rows[i], vec)])

(***************************************************************************)
(* ask.py : retrieve_chunks_for_query                                      *)
(***************************************************************************)
\* whether row i comes before row j in np.argsort(-sims).  The default sort
\* kind is not stable: the order of rows of equal similarity is the build's
\* (`ties`: "first" = lower row index first, "last" = higher row index first)
ranks_before(sims, i, j, ties) ==
    \/ sims[i] > sims[j]
    \/ sims[i] = sims[j] /\ (IF ties = "first" THEN i < j ELSE i > j)

\* np.argsort(-sims) (rows are numbered from 1 here)
argsort_desc(sims, ties) ==
    List([k \in 1..Len(sims) |->
        CHOOSE i \in 1..Len(sims) :
            Cardinality({j \in 1..Len(sims) : ranks_before(sims, j, i, ties)}) = k - 1])

\* mutant: the similarity of the last candidate
max_sim_last(sims, top_indices) ==
    IF Len(top_indices) > 0 THEN sims[top_indices[Len(top_indices)]] ELSE 0

\* float(sims[top_indices[0]]) if len(top_indices) > 0 else 0.0
max_sim_of(sims, top_indices) ==
    IF Len(top_indices) > 0 THEN sims[top_indices[1]] ELSE 0

\* mutant: `seen` outlives the call, holding the chunks of earlier answers
already_seen_in_session(chunk_id, seen) ==
    \/ chunk_id \in seen
    \/ \E i \in 1..Len(log) :
          \E k \in 1..Len(log[i].context_chunks) :
              log[i].context_chunks[k].chunk_id = chunk_id

\* "if chunk_id in seen: continue"
already_seen(chunk_id, seen) == chunk_id \in seen

\* chunk = chunks_by_id.get(chunk_id); if chunk is not None: append
chunk_lookup(chunks_by_id, chunk_id, context_chunks) ==
    IF chunk_id \in DOMAIN chunks_by_id
    THEN Append(context_chunks, chunks_by_id[chunk_id])
    ELSE context_chunks

\* "if len(context_chunks) >= MAX_CHUNKS: break"
enough_chunks(context_chunks, max_chunks) == Len(context_chunks) >= max_chunks

\* the loop over top_indices from position k on; questions[int(idx)] raises
\* IndexError when the matrix has more rows than there are questions
RECURSIVE collect_chunks(_, _, _, _, _, _, _)
collect_chunks(top_indices, k, seen, context_chunks, questions, chunks_by_id, max_chunks) ==
    IF k > Len(top_indices)
    THEN [status |-> "ok", context_chunks |-> context_chunks]
    ELSE IF top_indices[k] > Len(questions)
    THEN [status |-> "index_error", context_chunks |-> <<>>]
    ELSE LET chunk_id == questions[top_indices[k]].chunk_id
         IN  IF already_seen(chunk_id, seen)
             THEN collect_chunks(top_indices, k + 1, seen, context_chunks,
                                 questions, chunks_by_id, max_chunks)
             ELSE LET found == chunk_lookup(chunks_by_id, chunk_id, context_chunks)
                  IN  IF enough_chunks(found, max_chunks)
                      THEN [status |-> "ok", context_chunks |-> found]
                      ELSE collect_chunks(top_indices, k + 1, seen \cup {chunk_id},
                                          found, questions, chunks_by_id, max_chunks)

\* ollama_embed: the backend's reply to one embedding request; on a failed
\* request raise_for_status() (or requests itself) raises
EmbedError == [ ok |-> FALSE, embedding |-> <<>> ]

EmbedReply(vec) == [ ok |-> TRUE, embedding |-> vec ]

\* retrieve_chunks_for_query(user_q, emb_matrix, questions, chunks_by_id);
\* reply is the backend's reply to the embedding request, max_chunks and
\* ties the configuration of the run.  status "ok": the function returned
\* (max_sim, context_chunks); otherwise it raised.
retrieve_chunks_for_query(reply, emb_matrix, questions, chunks_by_id, max_chunks, ties) ==
    IF ~reply.ok
    THEN [status |-> "embed_error", max_sim |-> 0, context_chunks |-> <<>>,
          sims |-> <<>>, top_indices |-> <<>>]
    ELSE IF emb_matrix.ndim # 2
    THEN \* np.linalg.norm(mat, axis=1) on a 1-D array raises AxisError
         [status |-> "axis_error", max_sim |-> 0, context_chunks |-> <<>>,
          sims |-> <<>>, top_indices |-> <<>>]
    ELSE LET q_vec == reply.embedding
             sims == cosine_sim_matrix(q_vec, emb_matrix)
             top_indices == Take(argsort_desc(sims, ties), TOP_K_QUESTIONS)
             max_sim == max_sim_of(sims, top_indices)
             walk == collect_chunks(top_indices, 1, {}, <<>>, questions,
                                    chunks_by_id, max_chunks)
         IN  [status |-> walk.status,
              max_sim |-> IF walk.status = "ok" THEN max_sim ELSE 0,
              context_chunks |-> walk.context_chunks,
              sims |-> sims, top_indices |-> top_indices]

(***************************************************************************)
(* ask.py : build_context_prompt, answer_query                             *)
(***************************************************************************)
\* fixed message strings are kept as one token
INSUFFICIENT == <<"Insufficient context in the handbook sections I know.">>
REFUSAL == <<"I cannot help with that as it would violate college policy.">>

\* ollama_chat: the backend's reply to one generation request; on a failed
\* request raise_for_status() (or requests itself) raises
ChatError == [ ok |-> FALSE, content |-> <<>> ]

ChatReply(content) == [ ok |-> TRUE, content |-> content ]

\* mutant: the excerpt is the text of the last context chunk
build_context_prompt_last(user_q, context_chunks) ==
    [ excerpt |-> context_chunks[Len(context_chunks)].text, user_q |-> user_q ]

\* build_context_prompt: the rules header is fixed; the prompt varies in the
\* excerpt (context_chunks[0]["text"]) and in the user question
build_context_prompt(user_q, context_chunks) ==
    [ excerpt |-> context_chunks[1].text, user_q |-> user_q ]

\* mutant: the gate looks at the context chunks only
gate_closed_chunks_only(max_sim, context_chunks) == context_chunks = <<>>

\* "if max_sim < MIN_SIMILARITY or not context_chunks"
gate_closed(max_sim, context_chunks) ==
    max_sim < MIN_SIMILARITY \/ context_chunks = <<>>

\* one citation line: f"- {title} – Student Handbook ({url})", or without
\* the parenthesis when url is empty (the dash is written "--")
citation(ch) ==
    <<"-", " ">> \o ch.section_title
        \o <<" ", "--", " ", "Student", " ", "Handbook">>
        \o (IF ch.url # "" THEN <<" ", "(", ch.url, ")">> ELSE <<>>)

\* ollama_chat(model, prompt) as a request record
ChatCall(prompt) == [ model |-> GENERATOR_MODEL, prompt |-> prompt ]

\* mutant: a failed retrieval silently falls back on the fixed message
answer_after_retrieval_fallback(user_q, r, chat) ==
    IF r.status # "ok" \/ r.max_sim < MIN_SIMILARITY \/ r.context_chunks = <<>>
    THEN [status |-> "ok", printed |-> <<INSUFFICIENT \o <<"\n">> >>,
          chat_calls |-> <<>>]
    ELSE IF ~chat.ok
    THEN [status |-> "chat_error", printed |-> <<>>,
          chat_calls |-> <<ChatCall(build_context_prompt(user_q, r.context_chunks))>>]
    ELSE [status |-> "ok", printed |-> <<strip(chat.content)>>,
          chat_calls |-> <<ChatCall(build_context_prompt(user_q, r.context_chunks))>>]

\* mutant: the Sources list is left out when the backend's answer is one of
\* the two fixed strings
answer_after_retrieval_bare_fixed(user_q, r, chat) ==
    IF r.status # "ok"
    THEN [status |-> r.status, printed |-> <<>>, chat_calls |-> <<>>]
    ELSE IF gate_closed(r.max_sim, r.context_chunks)
    THEN [status |-> "ok", printed |-> <<INSUFFICIENT \o <<"\n">> >>,
          chat_calls |-> <<>>]
    ELSE LET prompt == build_context_prompt(user_q, r.context_chunks)
         IN  IF ~chat.ok
             THEN [status |-> "chat_error", printed |-> <<>>,
                   chat_calls |-> <<ChatCall(prompt)>>]
             ELSE IF strip(chat.content) \in {REFUSAL, INSUFFICIENT}
             THEN [status |-> "ok", printed |-> <<strip(chat.content)>>,
                   chat_calls |-> <<ChatCall(prompt)>>]
             ELSE [status |-> "ok",
                   printed |-> <<strip(chat.content), <<"\n", "Sources", ":">> >>
                       \o [k \in 1..Len(r.context_chunks) |->
                              citation(r.context_chunks[k])]
                       \o << <<>> >>,
                   chat_calls |-> <<ChatCall(prompt)>>]

\* answer_query after retrieval returned r: what is printed (one entry per
\* print call) and the generation requests made; `chat` is the backend's
\* reply to the generation request
answer_after_retrieval(user_q, r, chat) ==
    IF r.status # "ok"
    THEN [status |-> r.status, printed |-> <<>>, chat_calls |-> <<>>]
    ELSE IF gate_closed(r.max_sim, r.context_chunks)
    THEN [status |-> "ok", printed |-> <<INSUFFICIENT \o <<"\n">> >>,
          chat_calls |-> <<>>]
    ELSE LET prompt == build_context_prompt(user_q, r.context_chunks)
         IN  IF ~chat.ok
             THEN [status |-> "chat_error", printed |-> <<>>,
                   chat_calls |-> <<ChatCall(prompt)>>]
             ELSE [status |-> "ok",
                   printed |-> <<strip(chat.content), <<"\n", "Sources", ":">> >>
                       \o [k \in 1..Len(r.context_chunks) |->
                              citation(r.context_chunks[k])]
                       \o << <<>> >>,
                   chat_calls |-> <<ChatCall(prompt)>>]

(***************************************************************************)
(* score.py : safe_generate_answer                                         *)
(***************************************************************************)
\* mutant: the backend's answer is returned as it came, not stripped
safe_generate_answer_raw(user_q, max_sim, context_chunks, chat) ==
    IF gate_closed(max_sim, context_chunks)
    THEN [status |-> "ok", text |-> INSUFFICIENT, chat_calls |-> <<>>]
    ELSE LET prompt == build_context_prompt(user_q, context_chunks)
         IN  IF ~chat.ok
             THEN [status |-> "chat_error", text |-> <<>>,
                   chat_calls |-> <<ChatCall(prompt)>>]
             ELSE [status |-> "ok", text |-> chat.content,
                   chat_calls |-> <<ChatCall(prompt)>>]

\* safe_generate_answer(user_q, max_sim, context_chunks): the text returned
\* (status "ok") and the generation requests made
safe_generate_answer(user_q, max_sim, context_chunks, chat) ==
    IF gate_closed(max_sim, context_chunks)
    THEN [status |-> "ok", text |-> INSUFFICIENT, chat_calls |-> <<>>]
    ELSE LET prompt == build_context_prompt(user_q, context_chunks)
         IN  IF ~chat.ok
             THEN [status |-> "chat_error", text |-> <<>>,
                   chat_calls |-> <<ChatCall(prompt)>>]
             ELSE [status |-> "ok", text |-> strip(chat.content),
                   chat_calls |-> <<ChatCall(prompt)>>]

(***************************************************************************)
(* score.py : main                                                         *)
(***************************************************************************)
\* mutant: every case with a gold chunk counts, whatever its type
eligible_case_any_type(qtype, gold_chunk) == gold_chunk # <<>>

\* "if qtype == "normal" and gold_chunk" (gold_chunk is already stripped)
eligible_case(qtype, gold_chunk) == qtype = "normal" /\ gold_chunk # <<>>

\* mutant: a case with any predicted chunk counts as a hit
is_hit_any(pred_chunk, gold_chunk) == IF pred_chunk # <<>> THEN 1 ELSE 0

\* "1 if pred_chunk == gold_chunk else 0"
is_hit(pred_chunk, gold_chunk) == IF pred_chunk = gold_chunk THEN 1 ELSE 0

\* f"{hit_rate:.3f}" of total_hits / total_normals, in thousandths
hit_rate_thousandths(total_hits, total_normals) ==
    (2000 * total_hits + total_normals) \div (2 * total_normals)

\* the summary printed after results.csv is written
summary_of(total_hits, total_normals) ==
    IF total_normals > 0
    THEN [ kind |-> "hit_rate", normals |-> total_normals,
           hit_at_1 |-> hit_rate_thousandths(total_hits, total_normals) ]
    ELSE [ kind |-> "no_answerable", normals |-> 0, hit_at_1 |-> 0 ]

\* nothing was printed: the run ended before the summary
NoSummary == [ kind |-> "absent", normals |-> 0, hit_at_1 |-> 0 ]

\* one iteration of the evaluation loop on the gold row `row`, from the
\* retrieval result r on; chat: the generation backend's reply in this case.
\* acc: total_normals, total_hits, out_rows and, per processed case, what
\* retrieval returned and the generation requests made.
score_case(row, embed, chat, acc, r) ==
    LET gold_chunk == strip(row.gold_chunk)
        pred_chunk == IF r.context_chunks # <<>>
                      THEN r.context_chunks[1].chunk_id ELSE <<>>
        eligible == eligible_case(row.type, gold_chunk)
        hit == is_hit(pred_chunk, gold_chunk)
        normals == IF eligible THEN acc.total_normals + 1
                   ELSE acc.total_normals
        hits == IF eligible THEN acc.total_hits + hit ELSE acc.total_hits
        a == safe_generate_answer(row.question, r.max_sim,
                                  r.context_chunks, chat)
        case == [ question |-> row.question, embed |-> embed,
                  retrieval |-> r,
                  chat_calls |-> IF r.status = "ok" THEN a.chat_calls ELSE <<>>,
                  answer_text |-> IF r.status = "ok" THEN a.text ELSE <<>>,
                  \* the counters when the case ended
                  total_normals |-> IF r.status = "ok" THEN normals
                                    ELSE acc.total_normals,
                  total_hits |-> IF r.status = "ok" THEN hits
                                 ELSE acc.total_hits ]
    IN  IF r.status # "ok"
        THEN [acc EXCEPT !.status = r.status, !.cases = Append(@, case)]
        ELSE IF a.status # "ok"
        THEN [acc EXCEPT !.status = a.status, !.cases = Append(@, case)]
        ELSE [acc EXCEPT
                !.total_normals = normals,
                !.total_hits = hits,
                !.cases = Append(@, case),
                !.out_rows = Append(@,
                   [ qid |-> row.qid, question |-> row.question,
                     type |-> row.type, gold_chunk |-> gold_chunk,
                     pred_chunk |-> pred_chunk,
                     hit1 |-> IF eligible THEN ToString(hit) ELSE "",
                     answer_text |-> a.text, notes |-> row.notes ])]

\* the evaluation loop from gold row i on.  env: the loaded index, the run's
\* configuration and what the backends do (env.embed[i], env.chat[i]: their
\* replies in case i).  An exception (acc.status # "ok") ends the loop.
\* Each iteration's retrieval and accumulator are computed once and bound.
RECURSIVE score_loop(_, _, _, _)
score_loop(gold, i, acc, env) ==
    IF i > Len(gold) THEN acc
    ELSE CHOOSE res \in
           { IF acc1.status # "ok" THEN acc1
             ELSE score_loop(gold, i + 1, acc1, env) :
               acc1 \in { score_case(gold[i], env.embed[i], env.chat[i], acc, r) :
                            r \in { retrieve_chunks_for_query(env.embed[i],
                                       env.emb_matrix, env.questions,
                                       env.chunks_by_id, env.max_chunks,
                                       env.ties) } } } : TRUE

(***************************************************************************)
(* The backends and the inputs of the modelled runs                        *)
(***************************************************************************)
\* handbook texts
T_hazing == << <<"Hazing", " ", "is", " ", "banned", ".">> >>
T_conduct ==
    << <<"I", ".", " ", "Attendance">>,
       <<"Up", " ", "to", " ", "12", " ", "absences", " ", "allowed", ".">>,
       <<"II", ".", " ", "Appeals">>,
       <<"Appeals", " ", "go", " ", "to", " ", "dean", ".">> >>

\* contents of the data directory
D_empty == [f \in {} |-> <<>>]
D_small == (F_notes :> T_hazing)
D_full  == (F_hazing :> T_hazing) @@ (F_conduct :> T_conduct)
\* a file that is not UTF-8 text, sorted after / before a readable file
T_garbled == << <<"Haz", InvalidBytes>> >>
D_bad_last  == (F_notes :> T_hazing) @@ (F_conduct :> T_garbled)
D_bad_first == (F_hazing :> T_garbled) @@ (F_notes :> T_hazing)
DataDirs == {D_empty, D_small, D_full, D_bad_last, D_bad_first}

\* the generation backend's possible raw answers to a doc2query prompt
R_hazing == << <<"1", ".", " ">> \o Q_hazing,
               <<"2", ".", " ">> \o Q_hazing2,
               <<"-", " ">> \o Q_hazing >>
R_attend == << Q_abs12, <<" ">>, Q_abs5 \o <<" ">>, Q_abs2, Q_hazing >>
R_appeal == << <<"*", " ">> \o Q_appeal >>
R_off    == << Q_weather, Q_dean >>

doc2query_replies(excerpt) ==
    { R_off,
      CASE excerpt = T_hazing -> R_hazing
        [] excerpt = << T_conduct[2] >> -> R_attend
        [] excerpt = << T_conduct[4] >> -> R_appeal
        [] OTHER -> R_off }

\* the generation backend's possible raw answers to an answer prompt
A_grounded == <<" ", "Hazing", " ", "is", " ", "banned", ".", "\n">>
Answers == {A_grounded, REFUSAL, INSUFFICIENT \o <<"\n">>}

\* gold sets (tests/gold.csv)
G_one == << [ qid |-> "q1", question |-> U_hazing, type |-> "normal",
              gold_chunk |-> <<"chunk_", "0">>, notes |-> "" ],
            [ qid |-> "q2", question |-> U_weather, type |-> "adversarial",
              gold_chunk |-> <<>>, notes |-> "" ] >>
G_two == << [ qid |-> "q1", question |-> U_absent, type |-> "normal",
              gold_chunk |-> <<"chunk_", "1", " ">>, notes |-> "" ],
            [ qid |-> "q2", question |-> U_hazing, type |-> "normal",
              gold_chunk |-> <<" ">>, notes |-> "" ],
            [ qid |-> "q3", question |-> U_hazing, type |-> "normal",
              gold_chunk |-> <<"chunk_", "1">>, notes |-> "" ] >>
G_zero == << [ qid |-> "q1", question |-> U_hazing, type |-> "adversarial",
               gold_chunk |-> <<"chunk_", "0">>, notes |-> "" ] >>
GoldSets == {G_one, G_two, G_zero}

\* the MAX_CHUNKS settings a run is made with: 0..MaxChunksSetting (the
\* shipped value is 1)
MaxChunksSetting == 2

(***************************************************************************)
(* Chunker specification: the inputs of iter_section_chunks are drawn from *)
(* bounded sets, one action applies it.                                    *)
(***************************************************************************)
MaxLines == 5
MaxBudget == 6

L_blank  == <<>>
L_space  == <<" ">>
L_header == <<"I", ".", " ", "Scope">>
L_aa     == <<"aa">>
L_bbbb   == <<" ", "bbbb">>
L_fees   == <<"II", ".", " ", "Fees">>

LineSet == {L_blank, L_space, L_header, L_aa, L_bbbb}
FileSet == {F_conduct, F_hazing}

InitChunk ==
    /\ chunks_file = NoFile /\ questions_file = NoFile
    /\ emb_file = NoFile /\ meta_file = NoFile
    /\ argsort_ties = "first"
    /\ out = [prog |-> "none"]
    /\ session = NoSession /\ log = <<>>
    /\ c_text \in SeqsUpTo(LineSet, MaxLines)
    /\ c_filename \in FileSet
    /\ c_max_chars \in 1..MaxBudget
    /\ c_out = <<>>
    /\ c_pc = "input"

RunChunker ==
    /\ c_pc = "input"
    /\ c_out' = iter_section_chunks(c_text, c_filename, c_max_chars)
    /\ c_pc' = "done"
    /\ UNCHANGED <<c_text, c_filename, c_max_chars, files, argsort_ties, out, svars>>

NextChunk == RunChunker

SpecChunk == InitChunk /\ [][NextChunk]_vars

\* the same, on documents with header lines of two different titles
SectionLineSet == {L_blank, L_header, L_fees, L_aa, L_bbbb}

InitSections ==
    /\ chunks_file = NoFile /\ questions_file = NoFile
    /\ emb_file = NoFile /\ meta_file = NoFile
    /\ argsort_ties = "first"
    /\ out = [prog |-> "none"]
    /\ session = NoSession /\ log = <<>>
    /\ c_text \in SeqsUpTo(SectionLineSet, MaxLines)
    /\ c_filename \in FileSet
    /\ c_max_chars \in 1..MaxBudget
    /\ c_out = <<>>
    /\ c_pc = "input"

SpecSections == InitSections /\ [][NextChunk]_vars

(***************************************************************************)
(* Pipeline specification: runs of ingest.py, index.py, ask.py (one query) *)
(* and score.py over the files of the index directory, one at a time.      *)
(* Every run is one step; `out` describes the run until the program exits. *)
(***************************************************************************)
Init ==
    /\ chunks_file = NoFile /\ questions_file = NoFile
    /\ emb_file = NoFile /\ meta_file = NoFile
    /\ argsort_ties \in {"first", "last"}
    /\ out = [prog |-> "none"]
    /\ session = NoSession /\ log = <<>>
    /\ c_text = <<>> /\ c_filename = F_notes /\ c_max_chars = MAX_CHARS
    /\ c_out = <<>> /\ c_pc = "idle"

\* ingest.py main on the data directory data_dir
IngestMain(data_dir) ==
    /\ out.prog = "none"
    /\ chunks_file' = File(ingest_main(data_dir))
    /\ out' = [ prog |-> "ingest", status |-> ingest_status(data_dir),
                data_dir |-> data_dir ]
    /\ UNCHANGED <<questions_file, emb_file, meta_file, argsort_ties, cvars, svars>>

\* index.py main; raws[k]: the generation backend's answer for chunk k;
\* fault: the backend that is failing during this run, if any
IndexMain(raws, fault) ==
    LET chunks == chunks_file.content
        questions == build_questions(chunks, raws)
        emb_matrix == build_embeddings(questions)
    IN  /\ out.prog = "none"
        /\ chunks_file.exists       \* otherwise load_chunks raises at once
        /\ IF fault = "chat" /\ chunks # <<>>
           THEN \* ollama_chat raises inside build_questions
                /\ out' = [ prog |-> "index", status |-> "chat_error",
                            raws |-> raws, embed_calls |-> <<>> ]
                /\ UNCHANGED <<questions_file, emb_file, meta_file>>
           ELSE /\ questions_file' = File(questions)       \* save_questions
                /\ IF fault = "embed" /\ questions # <<>>
                   THEN \* ollama_embed raises inside build_embeddings
                        /\ out' = [ prog |-> "index", status |-> "embed_error",
                                    raws |-> raws,
                                    embed_calls |-> Take(embed_calls(questions), 1) ]
                        /\ UNCHANGED <<emb_file, meta_file>>
                   ELSE /\ emb_file' = File(emb_matrix)    \* save_embeddings
                        /\ meta_file' = File(embedding_meta(emb_matrix))
                        /\ out' = [ prog |-> "index", status |-> "ok",
                                    raws |-> raws,
                                    embed_calls |-> embed_calls(questions) ]
        /\ UNCHANGED <<chunks_file, argsort_ties, cvars, svars>>

\* whether ask.py / score.py can load the index at all
index_loadable ==
    /\ questions_file.exists /\ chunks_file.exists
    /\ emb_file.exists /\ meta_file.exists

\* ask.py main answering one query: the index is loaded from the files,
\* answer_query(user_q, ...) runs with MAX_CHUNKS = max_chunks; embed and
\* chat are the backends' replies
AskQuery(user_q, max_chunks, embed, chat) ==
    LET r == retrieve_chunks_for_query(embed, emb_file.content,
                 questions_file.content, load_chunks(chunks_file.content),
                 max_chunks, argsort_ties)
        a == answer_after_retrieval(user_q, r, chat)
    IN  /\ out.prog = "none"
        /\ index_loadable
        /\ out' = [ prog |-> "ask", status |-> a.status, user_q |-> user_q,
                    max_chunks |-> max_chunks, embed |-> embed,
                    retrieval |-> r,
                    printed |-> a.printed, chat_calls |-> a.chat_calls ]
        /\ UNCHANGED <<files, argsort_ties, cvars, svars>>

\* score.py main on the gold set gold; fail_at/fault: the case in which a
\* backend fails (0: none) and which; answer: the generation backend's raw
\* answer in the other cases
ScoreMain(gold, max_chunks, fail_at, fault, answer) ==
    /\ out.prog = "none"
    /\ index_loadable
    /\ \E env \in {[ emb_matrix |-> emb_file.content,
                     questions |-> questions_file.content,
                     chunks_by_id |-> load_chunks(chunks_file.content),
                     max_chunks |-> max_chunks, ties |-> argsort_ties,
                     embed |-> List([i \in 1..Len(gold) |->
                                IF fail_at = i /\ fault = "embed" THEN EmbedError
                                ELSE EmbedReply(ollama_embed(gold[i].question))]),
                     chat |-> List([i \in 1..Len(gold) |->
                                IF fail_at = i /\ fault = "chat" THEN ChatError
                                ELSE ChatReply(answer)]) ]} :
         \E acc \in {score_loop(gold, 1,
                        [ status |-> "ok", total_normals |-> 0, total_hits |-> 0,
                          out_rows |-> <<>>, cases |-> <<>> ], env)} :
            out' = [ prog |-> "score", status |-> acc.status,
                     max_chunks |-> max_chunks, gold |-> gold,
                     cases |-> acc.cases,
                     \* results.csv and the summary exist only after the loop
                     results |-> IF acc.status = "ok" THEN acc.out_rows ELSE <<>>,
                     summary |-> IF acc.status = "ok"
                                 THEN summary_of(acc.total_hits, acc.total_normals)
                                 ELSE NoSummary,
                     total_normals |-> acc.total_normals,
                     total_hits |-> acc.total_hits ]
    /\ UNCHANGED <<files, argsort_ties, cvars, svars>>

\* the program has ended; the next one can be started (the programs never
\* run concurrently)
Exit ==
    /\ out.prog # "none"
    /\ out' = [prog |-> "none"]
    /\ UNCHANGED <<files, argsort_ties, cvars, svars>>

Faults == {"none", "chat", "embed"}

Next ==
    \/ \E d \in DataDirs : IngestMain(d)
    \/ \E fault \in Faults :
         \E raws \in [1..Len(chunks_file.content) ->
                        UNION {doc2query_replies(chunks_file.content[k].text) :
                                 k \in 1..Len(chunks_file.content)}] :
            /\ \A k \in 1..Len(raws) :
                  raws[k] \in doc2query_replies(chunks_file.content[k].text)
            /\ IndexMain(raws, fault)
    \/ \E user_q \in UserQueries, max_chunks \in 0..MaxChunksSetting :
         \/ AskQuery(user_q, max_chunks, EmbedError, ChatError)
         \/ \E chat \in {ChatError} \cup {ChatReply(a) : a \in Answers} :
               AskQuery(user_q, max_chunks, EmbedReply(ollama_embed(user_q)), chat)
    \/ \E gold \in GoldSets, max_chunks \in 0..MaxChunksSetting,
          fault \in Faults, answer \in Answers :
         \E fail_at \in (IF fault = "none" THEN {0} ELSE 1..Len(gold)) :
            ScoreMain(gold, max_chunks, fail_at, fault, answer)
    \/ Exit

Spec == Init /\ [][Next]_vars

(***************************************************************************)
(* Session specification: one ask.py process (main) loads the index once   *)
(* and answers a sequence of queries from the loaded copy; `log` keeps     *)
(* what retrieve_chunks_for_query returned for each answered query.        *)
(***************************************************************************)
\* the longest sequence of queries followed in one session
MaxSessionQueries == 3

\* the index directories a session is started on: built by ingest.py and
\* index.py from index_dir, chunks.jsonl possibly rewritten from chunks_dir
IndexDir(chunks_dir, index_dir, raws) ==
    LET questions == build_questions(ingest_main(index_dir), raws)
    IN  [ chunks |-> File(ingest_main(chunks_dir)),
          questions |-> File(questions),
          emb |-> File(build_embeddings(questions)),
          meta |-> File(embedding_meta(build_embeddings(questions))) ]

IndexDirs ==
    { IndexDir(D_full, D_full, <<R_hazing, R_attend, R_appeal>>),
      IndexDir(D_small, D_full, <<R_hazing, R_attend, R_appeal>>),
      IndexDir(D_small, D_small, <<R_hazing>>),
      IndexDir(D_empty, D_empty, <<>>) }

InitAsk ==
    /\ \E ix \in IndexDirs :
          /\ chunks_file = ix.chunks /\ questions_file = ix.questions
          /\ emb_file = ix.emb /\ meta_file = ix.meta
    /\ argsort_ties \in {"first", "last"}
    /\ out = [prog |-> "none"]
    /\ session = NoSession /\ log = <<>>
    /\ c_text = <<>> /\ c_filename = F_notes /\ c_max_chars = MAX_CHARS
    /\ c_out = <<>> /\ c_pc = "idle"

\* ask.py main up to the prompt: the index is loaded once
AskStart(max_chunks) ==
    /\ ~session.loaded
    /\ index_loadable
    /\ session' = [ loaded |-> TRUE, emb_matrix |-> emb_file.content,
                    questions |-> questions_file.content,
                    chunks_by_id |-> load_chunks(chunks_file.content),
                    max_chunks |-> max_chunks ]
    /\ log' = <<>>
    /\ out' = [prog |-> "none"]
    /\ UNCHANGED <<files, argsort_ties, cvars>>

\* what retrieve_chunks_for_query returned for user_q
LogEntry(user_q, r) ==
    [ user_q |-> user_q, max_sim |-> r.max_sim,
      context_chunks |-> r.context_chunks ]

\* mutant: the chunks handed out are taken out of the map (dict.pop for
\* dict.get)
index_after_query_popped(s, r) ==
    [s EXCEPT !.chunks_by_id =
        [id \in DOMAIN s.chunks_by_id \
                  {r.context_chunks[k].chunk_id : k \in 1..Len(r.context_chunks)}
            |-> s.chunks_by_id[id]]]

\* the loaded emb_matrix, questions and chunks_by_id after answer_query
\* returned: retrieval and answer synthesis only read them
index_after_query(s, r) == s

\* one turn of the loop of ask.py main: answer_query on the loaded index.
\* An exception is not caught and ends the process.
SessionQuery(user_q, embed, chat) ==
    LET r == retrieve_chunks_for_query(embed, session.emb_matrix,
                 session.questions, session.chunks_by_id,
                 session.max_chunks, argsort_ties)
        a == answer_after_retrieval(user_q, r, chat)
    IN  /\ session.loaded
        /\ Len(log) < MaxSessionQueries
        /\ out' = [ prog |-> "ask", status |-> a.status, user_q |-> user_q,
                    max_chunks |-> session.max_chunks, embed |-> embed,
                    retrieval |-> r,
                    printed |-> a.printed, chat_calls |-> a.chat_calls ]
        /\ log' = IF r.status = "ok" THEN Append(log, LogEntry(user_q, r))
                  ELSE log
        /\ session' = IF a.status = "ok" THEN index_after_query(session, r)
                      ELSE NoSession
        /\ UNCHANGED <<files, argsort_ties, cvars>>

\* "/exit", "/quit" or end of input
SessionQuit ==
    /\ session.loaded
    /\ session' = NoSession
    /\ UNCHANGED <<files, argsort_ties, cvars, out, log>>

NextAsk ==
    \/ \E max_chunks \in 0..MaxChunksSetting : AskStart(max_chunks)
    \/ \E user_q \in UserQueries :
         \/ SessionQuery(user_q, EmbedError, ChatError)
         \/ \E chat \in {ChatError, ChatReply(A_grounded)} :
               SessionQuery(user_q, EmbedReply(ollama_embed(user_q)), chat)
    \/ SessionQuit

SpecAsk == InitAsk /\ [][NextAsk]_vars

(***************************************************************************)
(* Answer specification: answer_query (from the retrieval result on) and   *)
(* safe_generate_answer are applied to the same question, similarity,      *)
(* context chunks and backend reply.                                       *)
(***************************************************************************)
\* similarities around the threshold
SimSamples == {0, MIN_SIMILARITY - 1, MIN_SIMILARITY, MIN_SIMILARITY + 1, 100}

\* context chunk lists: up to MaxChunksSetting chunks of the full handbook
ContextSamples ==
    SeqsUpTo({ingest_main(D_full)[k] : k \in 1..Len(ingest_main(D_full))},
             MaxChunksSetting)

InitAnswer ==
    /\ chunks_file = File(ingest_main(D_full)) /\ questions_file = NoFile
    /\ emb_file = NoFile /\ meta_file = NoFile
    /\ argsort_ties = "first"
    /\ out = [prog |-> "none"]
    /\ session = NoSession /\ log = <<>>
    /\ c_text = <<>> /\ c_filename = F_notes /\ c_max_chars = MAX_CHARS
    /\ c_out = <<>> /\ c_pc = "idle"

\* both functions on one input; chat: the generation backend's reply
AnswerBoth(user_q, max_sim, context_chunks, chat) ==
    /\ out.prog = "none"
    /\ out' = [ prog |-> "answer", user_q |-> user_q, max_sim |-> max_sim,
                context_chunks |-> context_chunks, chat |-> chat,
                ask |-> answer_after_retrieval(user_q,
                           [ status |-> "ok", max_sim |-> max_sim,
                             context_chunks |-> context_chunks ], chat),
                score |-> safe_generate_answer(user_q, max_sim,
                                               context_chunks, chat) ]
    /\ UNCHANGED <<files, argsort_ties, cvars, svars>>

NextAnswer ==
    \E user_q \in UserQueries, max_sim \in SimSamples,
       context_chunks \in ContextSamples,
       chat \in {ChatError} \cup {ChatReply(a) : a \in Answers} :
        AnswerBoth(user_q, max_sim, context_chunks, chat)

SpecAnswer == InitAnswer /\ [][NextAnswer]_vars

(***************************************************************************)
(* Chunker claims (checked under SpecChunk)                                *)
(***************************************************************************)
\* the paragraphs a chunk text is the blank-line join of
ParagraphsOf(text) == split_paragraphs(text, 1, <<>>)

ChunkParagraphs(chunks) ==
    Flatten([k \in 1..Len(chunks) |-> ParagraphsOf(chunks[k].text)])

IsHeaderLine(line) == ROMAN_HEADER_RE(strip(line)) # <<>>

\* the paragraphs of the normalized document in reading order; in a
\* multi-section file a header line is not content and ends a paragraph
DocumentParagraphs(text, filename) ==
    LET norm == normalize_newlines(text)
        body == List([i \in 1..Len(norm) |->
                    IF filename \in MULTI_SECTION_FILES /\ IsHeaderLine(norm[i])
                    THEN <<>> ELSE norm[i]])
    IN  split_paragraphs(body, 1, <<>>)

\* the lines of the normalized document that precede its first header line
RECURSIVE PreambleLines(_)
PreambleLines(norm) ==
    IF norm = <<>> \/ IsHeaderLine(Head(norm)) THEN <<>>
    ELSE <<Head(norm)>> \o PreambleLines(Tail(norm))

PreambleParagraphs(text) ==
    split_paragraphs(PreambleLines(normalize_newlines(text)), 1, <<>>)

\* C3: every chunk text is at most max_chars long, unless the chunk is a
\* single paragraph that is itself longer than max_chars.
C3_ChunkWithinBudget ==
    c_pc = "done" =>
        \A k \in 1..Len(c_out) :
            \/ TextLen(c_out[k].text) <= c_max_chars
            \/ /\ Len(ParagraphsOf(c_out[k].text)) = 1
               /\ TextLen(ParagraphsOf(c_out[k].text)[1]) > c_max_chars

\* C3 witness: one run emitted a chunk of several paragraphs that fills the
\* budget exactly, after a chunk that is one oversized paragraph.
C3_Witness ==
    /\ c_pc = "done"
    /\ \E k \in 1..Len(c_out) :
          /\ Len(ParagraphsOf(c_out[k].text)) >= 2
          /\ TextLen(c_out[k].text) = c_max_chars
    /\ \E k \in 1..Len(c_out) :
          /\ Len(ParagraphsOf(c_out[k].text)) = 1
          /\ TextLen(c_out[k].text) > c_max_chars

\* C4: the paragraphs of the emitted chunks, in chunk order, are exactly the
\* paragraphs of the normalized document in reading order, each once; only
\* the header lines of a multi-section file are left out.
C4_EveryParagraphOnce ==
    c_pc = "done" =>
        ChunkParagraphs(c_out) = DocumentParagraphs(c_text, c_filename)

\* C5: in a multi-section file, text before the first header is emitted under
\* the filename-derived fallback title, whether or not a header follows.
C5_PreambleUnderFallbackTitle ==
    (c_pc = "done" /\ c_filename \in MULTI_SECTION_FILES
       /\ PreambleParagraphs(c_text) # <<>>) =>
        LET fallback == SelectSeq(c_out,
                LAMBDA ch : ch.section_title = base_title_of(c_filename))
        IN  ChunkParagraphs(fallback) = PreambleParagraphs(c_text)

(***************************************************************************)
(* Pipeline claims (checked under Spec)                                    *)
(***************************************************************************)
\* the chunk map ask.py / score.py load from chunks.jsonl
chunks_by_id_loaded == load_chunks(chunks_file.content)

\* whether a printed line holds the "Sources" heading
HasSources(printed) ==
    \E i \in 1..Len(printed) :
        \E t \in 1..Len(printed[i]) : printed[i][t] = "Sources"

\* C1: in answer_query and in safe_generate_answer, when max_sim is below
\* MIN_SIMILARITY or there is no context chunk, the output is the fixed
\* insufficient-context string, no generation request is made and no
\* Sources line is printed.
C1_GateClosedNoGeneration ==
    /\ (out.prog = "ask" /\ out.retrieval.status = "ok"
          /\ (\/ out.retrieval.max_sim < MIN_SIMILARITY
              \/ out.retrieval.context_chunks = <<>>))
          => /\ out.printed = << INSUFFICIENT \o <<"\n">> >>
             /\ out.chat_calls = <<>>
             /\ ~HasSources(out.printed)
    /\ out.prog = "score" =>
          \A k \in 1..Len(out.cases) :
              (/\ out.cases[k].retrieval.status = "ok"
               /\ \/ out.cases[k].retrieval.max_sim < MIN_SIMILARITY
                  \/ out.cases[k].retrieval.context_chunks = <<>>)
                 => /\ out.cases[k].answer_text = INSUFFICIENT
                    /\ out.cases[k].chat_calls = <<>>

\* C1 witness: a query found a chunk, but with a similarity below the
\* threshold, and got the fixed message.
C1_Witness ==
    /\ out.prog = "ask" /\ out.retrieval.status = "ok"
    /\ out.retrieval.max_sim < MIN_SIMILARITY
    /\ out.retrieval.context_chunks # <<>>
    /\ out.printed = << INSUFFICIENT \o <<"\n">> >>
    /\ out.chat_calls = <<>>

\* C2: a persisted question table always comes with the embedding matrix
\* and the metadata of the same indexing run: one row per question, each the
\* embedding of that question.
C2_IndexAllOrNothing ==
    questions_file.exists =>
        /\ emb_file.exists /\ meta_file.exists
        /\ Len(emb_file.content.rows) = Len(questions_file.content)
        /\ \A i \in 1..Len(questions_file.content) :
              emb_file.content.rows[i] =
                  ollama_embed(questions_file.content[i].question)

\* the positions of top_indices whose question names a chunk that no earlier
\* position names and that the chunk map holds (a row without a question
\* names no chunk)
FirstHits(top_indices, questions, chunks_by_id) ==
    LET named(k) == top_indices[k] <= Len(questions)
        id(k) == questions[top_indices[k]].chunk_id
    IN  SelectSeq([k \in 1..Len(top_indices) |-> k],
            LAMBDA k :
                /\ named(k)
                /\ id(k) \in DOMAIN chunks_by_id
                /\ \A j \in 1..(k - 1) : named(j) => id(j) # id(k))

\* C6: the context chunks have pairwise distinct chunk_id, are at most
\* max_chunks, and are the chunks of the first max_chunks candidates (in
\* descending similarity) that name a new, existing chunk.
C6_DistinctBoundedOrdered ==
    (out.prog = "ask" /\ out.retrieval.status = "ok") =>
        LET ctx == out.retrieval.context_chunks
            hits == FirstHits(out.retrieval.top_indices,
                              questions_file.content, chunks_by_id_loaded)
        IN  /\ Len(ctx) <= out.max_chunks
            /\ \A i, j \in 1..Len(ctx) :
                  i # j => ctx[i].chunk_id # ctx[j].chunk_id
            /\ ctx = [k \in 1..Len(Take(hits, out.max_chunks)) |->
                        chunks_by_id_loaded[
                            questions_file.content[
                                out.retrieval.top_indices[hits[k]]].chunk_id]]

\* the largest entry of a non-empty sequence of numbers
MaxOf(sims) ==
    CHOOSE m \in {sims[i] : i \in 1..Len(sims)} :
        \A i \in 1..Len(sims) : sims[i] <= m

\* C7: max_sim is the largest similarity between the query vector and a row
\* of the index, whatever chunk the best row names; every context chunk is
\* the chunk the chunk map holds for its id (a row naming a missing chunk
\* contributes none).
C7_MaxSimIsBestRow ==
    (out.prog = "ask" /\ out.retrieval.status = "ok") =>
        LET rows == emb_file.content.rows
            ctx == out.retrieval.context_chunks
        IN  /\ out.retrieval.max_sim =
                  MaxOf([i \in 1..Len(rows) |->
                            cosine(rows[i], out.embed.embedding)])
            /\ \A k \in 1..Len(ctx) :
                  /\ ctx[k].chunk_id \in DOMAIN chunks_by_id_loaded
                  /\ ctx[k] = chunks_by_id_loaded[ctx[k].chunk_id]

\* C7 witness: the best row names a chunk that chunks.jsonl no longer holds,
\* a weaker row supplied the context chunk, and max_sim is the best row's.
C7_Witness ==
    /\ out.prog = "ask" /\ out.retrieval.status = "ok"
    /\ questions_file.content[out.retrieval.top_indices[1]].chunk_id
          \notin DOMAIN chunks_by_id_loaded
    /\ out.retrieval.context_chunks # <<>>
    /\ out.retrieval.max_sim = MaxOf(out.retrieval.sims)
    /\ \E i \in 1..Len(out.retrieval.sims) :
          out.retrieval.sims[i] < out.retrieval.max_sim

\* C8: top_indices are the TOP_K_QUESTIONS rows of highest similarity in
\* descending order, rows of equal similarity in row order.
C8_StableTopK ==
    (out.prog = "ask" /\ out.retrieval.sims # <<>>) =>
        LET sims == out.retrieval.sims
            top == out.retrieval.top_indices
            before(i, j) == sims[i] > sims[j] \/ (sims[i] = sims[j] /\ i < j)
        IN  /\ Len(top) = IF Len(sims) < TOP_K_QUESTIONS
                          THEN Len(sims) ELSE TOP_K_QUESTIONS
            /\ \A a, b \in 1..Len(top) : a < b => before(top[a], top[b])
            /\ \A i \in 1..Len(sims) :
                  (\A a \in 1..Len(top) : top[a] # i)
                     => \A a \in 1..Len(top) : before(top[a], i)

\* C9: on an index of zero rows a query whose embedding succeeded gets
\* max_sim 0 and no context chunk from retrieval, which does not raise, and
\* ends in the fixed insufficient-context message.
C9_EmptyIndexInsufficient ==
    (out.prog = "ask" /\ out.embed.ok /\ emb_file.content.rows = <<>>) =>
        /\ out.retrieval.status = "ok"
        /\ out.retrieval.max_sim = 0
        /\ out.retrieval.context_chunks = <<>>
        /\ out.printed = << INSUFFICIENT \o <<"\n">> >>

\* C10: when the embedding request for the user question fails, retrieval
\* raises: no similarity and no context chunk is returned, no generation
\* request is made and nothing is answered (ask.py prints nothing, score.py
\* records no answer and writes no results).
C10_EmbedFailurePropagates ==
    /\ (out.prog = "ask" /\ ~out.embed.ok)
          => /\ out.retrieval.status = "embed_error"
             /\ out.status = "embed_error"
             /\ out.retrieval.sims = <<>>
             /\ out.retrieval.context_chunks = <<>>
             /\ out.chat_calls = <<>>
             /\ out.printed = <<>>
    /\ out.prog = "score" =>
          \A k \in 1..Len(out.cases) :
              ~out.cases[k].embed.ok
                 => /\ out.cases[k].retrieval.status = "embed_error"
                    /\ out.cases[k].retrieval.context_chunks = <<>>
                    /\ out.cases[k].chat_calls = <<>>
                    /\ out.cases[k].answer_text = <<>>
                    /\ out.status = "embed_error"
                    /\ k = Len(out.cases)
                    /\ out.results = <<>>

\* C10 witness: the embedding request failed for a query on an index that
\* has rows, and the run ended with the error.
C10_Witness ==
    /\ out.prog = "ask" /\ ~out.embed.ok
    /\ emb_file.content.ndim = 2 /\ questions_file.content # <<>>
    /\ out.status = "embed_error"
    /\ out.printed = <<>>

ScoreDone == out.prog = "score" /\ out.status = "ok"

\* the gold chunk of gold case k, surrounding whitespace removed
GoldChunkOf(k) == strip(out.gold[k].gold_chunk)

\* the gold cases of type "normal" with a non-empty gold chunk
EligibleCases ==
    { k \in 1..Len(out.gold) :
        out.gold[k].type = "normal" /\ GoldChunkOf(k) # <<>> }

\* the id of the first chunk retrieval returned for case k ("" when none)
PredChunkOf(k) ==
    IF out.cases[k].retrieval.context_chunks = <<>> THEN <<>>
    ELSE out.cases[k].retrieval.context_chunks[1].chunk_id

HitCases == { k \in EligibleCases : PredChunkOf(k) = GoldChunkOf(k) }

\* C12: after a completed evaluation the reported Hit@1 (three decimals) is
\* the number of eligible cases whose predicted chunk is the gold chunk
\* divided by the number of eligible cases; with no eligible case the
\* "no answerable" message is reported and nothing is divided.
C12_HitRate ==
    ScoreDone =>
        IF EligibleCases = {}
        THEN out.summary.kind = "no_answerable"
        ELSE /\ out.summary.kind = "hit_rate"
             /\ out.summary.normals = Cardinality(EligibleCases)
             /\ 2 * (1000 * Cardinality(HitCases)
                       - out.summary.hit_at_1 * Cardinality(EligibleCases))
                   <= Cardinality(EligibleCases)
             /\ 2 * (out.summary.hit_at_1 * Cardinality(EligibleCases)
                       - 1000 * Cardinality(HitCases))
                   <= Cardinality(EligibleCases)

\* C12 witness: a completed run with two eligible cases, one of them a hit,
\* and one case left out of the denominator.
C12_Witness ==
    /\ ScoreDone
    /\ Cardinality(EligibleCases) = 2 /\ Cardinality(HitCases) = 1
    /\ Len(out.gold) = 3
    /\ out.summary.hit_at_1 = 500

\* C13: a completed evaluation has one result row per gold case, in gold
\* order; a case that is not eligible has an empty hit1, leaves both
\* counters as they were, and still has its predicted chunk and answer text.
C13_IneligibleCases ==
    ScoreDone =>
        /\ Len(out.results) = Len(out.gold)
        /\ \A k \in 1..Len(out.gold) :
              /\ out.results[k].qid = out.gold[k].qid
              /\ out.results[k].question = out.gold[k].question
              /\ k \notin EligibleCases =>
                    /\ out.results[k].hit1 = ""
                    /\ out.cases[k].total_normals =
                         (IF k = 1 THEN 0 ELSE out.cases[k - 1].total_normals)
                    /\ out.cases[k].total_hits =
                         (IF k = 1 THEN 0 ELSE out.cases[k - 1].total_hits)
                    /\ out.results[k].pred_chunk = PredChunkOf(k)
                    /\ out.results[k].answer_text = out.cases[k].answer_text
                    /\ out.results[k].answer_text # <<>>

\* C13 witness: after an eligible case was counted, a "normal" case with a
\* whitespace-only gold chunk got a row with a predicted chunk and no hit1.
C13_Witness ==
    /\ ScoreDone
    /\ \E k \in 2..Len(out.gold) :
          /\ out.gold[k].type = "normal" /\ out.gold[k].gold_chunk # <<>>
          /\ k \notin EligibleCases
          /\ out.cases[k - 1].total_normals = 1
          /\ out.cases[k].total_normals = 1
          /\ out.results[k].pred_chunk # <<>>
          /\ out.results[k].hit1 = ""

\* C14: when a backend request fails in one gold case, the run still has a
\* result row for every gold case and still reports the summary.
C14_FailedCaseLabelled ==
    (out.prog = "score" /\ out.status \in {"embed_error", "chat_error"}) =>
        /\ Len(out.cases) = Len(out.gold)
        /\ Len(out.results) = Len(out.gold)
        /\ out.summary.kind # "absent"

(***************************************************************************)
(* Ingestion claims (checked under Spec)                                   *)
(***************************************************************************)
\* the files of a data directory that decode
ReadableFiles(data_dir) ==
    [ f \in { g \in DOMAIN data_dir : decodes(data_dir[g]) } |-> data_dir[f] ]

\* the (section_title, text) pairs of the chunks written for file f, in order
ChunksOfFile(f) ==
    LET recs == SelectSeq(chunks_file.content, LAMBDA c : c.source_file = f)
    IN  [k \in 1..Len(recs) |->
            [section_title |-> recs[k].section_title, text |-> recs[k].text]]

\* C15: an ingestion run never aborts; the chunk table it leaves holds the
\* chunks of every readable file of the data directory, a file that cannot
\* be read being skipped.
C15_UnreadableFileSkipped ==
    out.prog = "ingest" =>
        /\ out.status = "ok"
        /\ \A f \in DOMAIN ReadableFiles(out.data_dir) :
              ChunksOfFile(f) =
                  iter_section_chunks(out.data_dir[f], f, MAX_CHARS)
        /\ \A k \in 1..Len(chunks_file.content) :
              chunks_file.content[k].source_file
                  \in DOMAIN ReadableFiles(out.data_dir)

\* the position of a file name in sorted order
FileRank(f) == CHOOSE i \in 1..Len(FileOrder) : FileOrder[i] = f

\* C20: the chunks of one ingestion run are numbered chunk_0, chunk_1, ...
\* in emission order without gap or repeat; files come in sorted name
\* order, the chunks of a file in reading order; every chunk carries its
\* file name and the URL configured for it (empty when none is).
C20_ChunkIdsSequential ==
    out.prog = "ingest" =>
        LET chunks == chunks_file.content
        IN  /\ \A k \in 1..Len(chunks) :
                  /\ chunks[k].chunk_id = <<"chunk_", ToString(k - 1)>>
                  /\ chunks[k].source_file \in DOMAIN out.data_dir
                  /\ chunks[k].url =
                        (IF chunks[k].source_file = F_hazing
                         THEN "https://centre.smartcatalogiq.com/hazing-statement"
                         ELSE IF chunks[k].source_file = F_conduct
                         THEN "https://centre.smartcatalogiq.com/student-conduct"
                         ELSE "")
            /\ \A j, k \in 1..Len(chunks) :
                  j < k => FileRank(chunks[j].source_file)
                              <= FileRank(chunks[k].source_file)
            /\ \A f \in DOMAIN out.data_dir :
                  ChunksOfFile(f) # <<>> =>
                      ChunksOfFile(f) =
                          iter_section_chunks(out.data_dir[f], f, MAX_CHARS)

\* C20 witness: a run over two files wrote three chunks, the second file's
\* two sections numbered on from the first file's chunk.
C20_Witness ==
    /\ out.prog = "ingest" /\ out.status = "ok"
    /\ Len(chunks_file.content) = 3
    /\ chunks_file.content[1].source_file # chunks_file.content[2].source_file
    /\ chunks_file.content[2].source_file = chunks_file.content[3].source_file
    /\ chunks_file.content[3].chunk_id = <<"chunk_", "2">>
    /\ chunks_file.content[3].url # ""

(***************************************************************************)
(* Indexer claims (checked under Spec)                                     *)
(***************************************************************************)
\* an index.py run in which build_questions returned
IndexBuilt == out.prog = "index" /\ out.status # "chat_error"

\* the candidate questions generated for chunk k of chunks.jsonl
CandidatesOf(k) == generate_questions_for_chunk(out.raws[k])

\* lowercased alphabetic tokens that are not stopwords
ContentWords(toks) ==
    { Lower(toks[i]) : i \in { j \in 1..Len(toks) : IsLetters(toks[j]) } }
        \ STOPWORDS

\* every maximal digit run of the question occurs in the chunk text
DigitRunsOccur(q, c_toks) ==
    \A i \in 1..Len(q) :
        IsDigits(q[i]) =>
            \E j \in 1..Len(c_toks) :
                /\ IsDigits(c_toks[j])
                /\ IsSubstring(DigitsOf(q[i]), DigitsOf(c_toks[j]))

Supported(q, chunk) ==
    /\ DigitRunsOccur(q, TextTokens(chunk.text))
    /\ Cardinality(ContentWords(q) \cap ContentWords(TextTokens(chunk.text)))
          >= 2

\* the candidates of chunk k that satisfy both conditions, in order
SurvivorsOf(k) ==
    SelectSeq(CandidatesOf(k),
              LAMBDA q : Supported(q, chunks_file.content[k]))

\* the persisted question records that name chunk k
RecordsOf(k) ==
    SelectSeq(questions_file.content,
              LAMBDA r : r.chunk_id = chunks_file.content[k].chunk_id)

\* C16: the questions persisted for a chunk are exactly its candidates
\* whose digit runs all occur in the chunk text and that share at least two
\* content words with it; so every persisted question satisfies both with
\* respect to the chunk its chunk_id names.
C16_SupportFilter ==
    IndexBuilt =>
        /\ \A k \in 1..Len(chunks_file.content) :
              List([i \in 1..Len(RecordsOf(k)) |-> RecordsOf(k)[i].question])
                 = SurvivorsOf(k)
        /\ \A i \in 1..Len(questions_file.content) :
              \E k \in 1..Len(chunks_file.content) :
                  /\ chunks_file.content[k].chunk_id
                        = questions_file.content[i].chunk_id
                  /\ Supported(questions_file.content[i].question,
                               chunks_file.content[k])

\* C16 witness: of the candidates of one chunk one was dropped for a number
\* the chunk does not hold and two were kept; a candidate of another chunk
\* was dropped for sharing a single content word.
C16_Witness ==
    /\ IndexBuilt
    /\ \E k \in 1..Len(chunks_file.content) :
          /\ Len(SurvivorsOf(k)) = 2 /\ Len(CandidatesOf(k)) = 3
          /\ \E i \in 1..3 :
                ~DigitRunsOccur(CandidatesOf(k)[i],
                                TextTokens(chunks_file.content[k].text))
    /\ \E k \in 1..Len(chunks_file.content) :
          \E i \in 1..Len(CandidatesOf(k)) :
              Cardinality(ContentWords(CandidatesOf(k)[i])
                  \cap ContentWords(TextTokens(chunks_file.content[k].text))) = 1

\* the position in chunks.jsonl of the chunk a question record names
ChunkIndexOf(r) ==
    CHOOSE k \in 1..Len(chunks_file.content) :
        chunks_file.content[k].chunk_id = r.chunk_id

\* C17: per chunk at most N_QUESTIONS_PER_CHUNK records, in the order of
\* the surviving candidates, with question_id "<chunk_id>_q<i>", i running
\* 0..n-1 over the survivors; question_ids are pairwise distinct and every
\* record carries the chunk_id of its source chunk.
C17_QuestionIds ==
    IndexBuilt =>
        /\ \A k \in 1..Len(chunks_file.content) :
              /\ Len(RecordsOf(k)) <= N_QUESTIONS_PER_CHUNK
              /\ Len(RecordsOf(k)) = Len(SurvivorsOf(k))
              /\ \A i \in 1..Len(RecordsOf(k)) :
                    /\ RecordsOf(k)[i].question_id =
                          chunks_file.content[k].chunk_id
                              \o <<"_q", ToString(i - 1)>>
                    /\ RecordsOf(k)[i].question = SurvivorsOf(k)[i]
                    /\ RecordsOf(k)[i].section_title =
                          chunks_file.content[k].section_title
        /\ \A i, j \in 1..Len(questions_file.content) :
              /\ i # j => questions_file.content[i].question_id
                             # questions_file.content[j].question_id
              /\ i < j => ChunkIndexOf(questions_file.content[i])
                             <= ChunkIndexOf(questions_file.content[j])
        /\ \A i \in 1..Len(questions_file.content) :
              \E k \in 1..Len(chunks_file.content) :
                  chunks_file.content[k].chunk_id
                      = questions_file.content[i].chunk_id

\* C17 witness: the first and the third candidate of a chunk survived and
\* are numbered q0 and q1; another chunk has three records.
C17_Witness ==
    /\ IndexBuilt
    /\ \E k \in 1..Len(chunks_file.content) :
          /\ Len(CandidatesOf(k)) = 3 /\ Len(RecordsOf(k)) = 2
          /\ RecordsOf(k)[2].question = CandidatesOf(k)[3]
          /\ RecordsOf(k)[2].question_id =
                chunks_file.content[k].chunk_id \o <<"_q", "1">>
    /\ \E k \in 1..Len(chunks_file.content) :
          Len(RecordsOf(k)) = N_QUESTIONS_PER_CHUNK

\* the chunks (positions) that have a surviving candidate
ChunksWithSurvivors ==
    SelectSeq([k \in 1..Len(chunks_file.content) |-> k],
              LAMBDA k : SurvivorsOf(k) # <<>>)

\* C18: a chunk none of whose candidates survives gets no record and does
\* not end the run; the persisted questions are those build_questions
\* returns for the input without the skipped chunks.
C18_EmptyChunkSkipped ==
    IndexBuilt =>
        /\ \A k \in 1..Len(chunks_file.content) :
              SurvivorsOf(k) = <<>> => RecordsOf(k) = <<>>
        /\ questions_file.content =
              build_questions(
                  [i \in 1..Len(ChunksWithSurvivors) |->
                      chunks_file.content[ChunksWithSurvivors[i]]],
                  [i \in 1..Len(ChunksWithSurvivors) |->
                      out.raws[ChunksWithSurvivors[i]]])

\* C18 witness: the second of three chunks had candidates, none survived,
\* and the chunks before and after it have their records.
C18_Witness ==
    /\ IndexBuilt
    /\ Len(chunks_file.content) = 3
    /\ CandidatesOf(2) # <<>> /\ SurvivorsOf(2) = <<>>
    /\ RecordsOf(1) # <<>> /\ RecordsOf(2) = <<>> /\ RecordsOf(3) # <<>>

\* C19: a successful build_embeddings made one embedding request per
\* question, in question order; the matrix has one row per question, row i
\* the embedding of question i; meta.json records the rows' dimension.
C19_OneRowPerQuestion ==
    (out.prog = "index" /\ out.status = "ok") =>
        /\ Len(out.embed_calls) = Len(questions_file.content)
        /\ Len(emb_file.content.rows) = Len(questions_file.content)
        /\ \A i \in 1..Len(questions_file.content) :
              /\ out.embed_calls[i].text = questions_file.content[i].question
              /\ emb_file.content.rows[i] =
                    ollama_embed(questions_file.content[i].question)
              /\ meta_file.content.dimension = Len(emb_file.content.rows[i])

\* C19 witness: a successful run embedded the same question text twice (two
\* records of one chunk) and has a row for each.
C19_Witness ==
    /\ out.prog = "index" /\ out.status = "ok"
    /\ Len(emb_file.content.rows) >= 3
    /\ questions_file.content[1].question = questions_file.content[3].question
    /\ emb_file.content.rows[1] = emb_file.content.rows[3]
    /\ Len(out.embed_calls) = Len(emb_file.content.rows)
    /\ meta_file.content.dimension = 2

(***************************************************************************)
(* Answer synthesis claims (checked under Spec)                            *)
(***************************************************************************)
\* the one generation request of a case whose gate passed: the generator
\* model, the text of the first context chunk and the question
FirstChunkCall(user_q, context_chunks) ==
    [ model |-> GENERATOR_MODEL,
      prompt |-> [ excerpt |-> context_chunks[1].text, user_q |-> user_q ] ]

\* whether retrieval r returned and passes the gate
GatePasses(r) ==
    /\ r.status = "ok"
    /\ r.max_sim >= MIN_SIMILARITY
    /\ r.context_chunks # <<>>

CitationLine(ch) ==
    <<"-", " ">> \o ch.section_title
        \o <<" ", "--", " ", "Student", " ", "Handbook">>
        \o (IF ch.url = "" THEN <<>> ELSE <<" ", "(", ch.url, ")">>)

\* C22: when the gate passed and the generation backend returned, what
\* answer_query printed after the answer text is the Sources heading, one
\* citation line per context chunk in context-chunk order, each made of that
\* chunk's section_title and url only, and a blank line: whatever the answer.
C22_CitationsFromChunks ==
    (out.prog = "ask" /\ GatePasses(out.retrieval) /\ out.status = "ok") =>
        LET chunks == out.retrieval.context_chunks
        IN  /\ Len(out.printed) = Len(chunks) + 3
            /\ out.printed[2] = <<"\n", "Sources", ":">>
            /\ \A k \in 1..Len(chunks) :
                  out.printed[2 + k] = CitationLine(chunks[k])
            /\ out.printed[Len(chunks) + 3] = <<>>

\* C22 witness: the backend answered with the fixed refusal; two chunks are
\* cited.
C22_Witness ==
    /\ out.prog = "ask" /\ GatePasses(out.retrieval) /\ out.status = "ok"
    /\ out.printed[1] = REFUSAL
    /\ Len(out.retrieval.context_chunks) = 2
    /\ Len(out.printed) = 5
    /\ out.printed[3] # out.printed[4]

(***************************************************************************)
(* Packing claims (checked under SpecChunk)                                *)
(***************************************************************************)
\* the header lines of the document
HeaderLines == { i \in 1..Len(c_text) : IsHeaderLine(c_text[i]) }

\* whether chunks k and k + 1 come from one section: always in a file that
\* is not multi-section; in a multi-section file with at most one header,
\* when they carry the same title
SameSection(k) ==
    \/ c_filename \notin MULTI_SECTION_FILES
    \/ /\ Cardinality(HeaderLines) <= 1
       /\ c_out[k].section_title = c_out[k + 1].section_title

\* the text chunk k would have with the first paragraph of chunk k + 1
\* joined to it by the blank-line separator
JoinedWithNext(k) ==
    c_out[k].text \o << <<>> >> \o ParagraphsOf(c_out[k + 1].text)[1]

\* C23: within a section a chunk is closed before paragraph p exactly when
\* joining p to it would make it longer than max_chars: a chunk of several
\* paragraphs fits max_chars, and where a section goes on in a next chunk,
\* that chunk's first paragraph would not have fitted.  The first chunk of a
\* section is no exception.
C23_GreedyPacking ==
    c_pc = "done" =>
        /\ \A k \in 1..Len(c_out) :
              Len(ParagraphsOf(c_out[k].text)) >= 2
                 => TextLen(c_out[k].text) <= c_max_chars
        /\ \A k \in 1..(Len(c_out) - 1) :
              SameSection(k) => TextLen(JoinedWithNext(k)) > c_max_chars

\* the blank-line join of a sequence of paragraphs
RECURSIVE BlankLineJoin(_)
BlankLineJoin(ps) ==
    IF ps = <<>> THEN <<>>
    ELSE IF Len(ps) = 1 THEN ps[1]
    ELSE ps[1] \o << <<>> >> \o BlankLineJoin(Tail(ps))

\* C24: every emitted chunk is non-empty and is the blank-line join of one
\* or more paragraphs; taken in chunk order these are whole paragraphs of
\* the document, consecutive and in reading order, so that no paragraph is
\* divided between two chunks; a chunk holding a paragraph longer than
\* max_chars holds that paragraph only.
C24_WholeParagraphs ==
    c_pc = "done" =>
        /\ \A k \in 1..Len(c_out) :
              LET ps == ParagraphsOf(c_out[k].text)
              IN  /\ c_out[k].text # <<>>
                  /\ ps # <<>>
                  /\ c_out[k].text = BlankLineJoin(ps)
                  /\ \A j \in 1..Len(ps) :
                        TextLen(ps[j]) > c_max_chars => Len(ps) = 1
        /\ LET doc == DocumentParagraphs(c_text, c_filename)
               emitted == ChunkParagraphs(c_out)
           IN  /\ Len(emitted) <= Len(doc)
               /\ emitted = SubSeq(doc, Len(doc) - Len(emitted) + 1, Len(doc))

\* C24 witness: a paragraph of two lines, longer than max_chars, is a chunk
\* of its own after a chunk that fits.
C24_Witness ==
    /\ c_pc = "done"
    /\ Len(c_out) = 2
    /\ Len(c_out[2].text) = 2
    /\ Len(ParagraphsOf(c_out[2].text)) = 1
    /\ TextLen(c_out[2].text) > c_max_chars
    /\ TextLen(c_out[1].text) <= c_max_chars

(***************************************************************************)
(* Section claims (checked under SpecSections)                             *)
(***************************************************************************)
\* the paragraphs of the normalized lines from line i on, each with the
\* line number of the nearest header line before it (sec; 0: none).  A header
\* line is not content and ends the paragraph before it.
RECURSIVE SectionParagraphs(_, _, _, _)
SectionParagraphs(lines, i, run, sec) ==
    LET flush == IF run # <<>>
                 THEN << [ sec |-> sec, paragraph |-> strip_text(run) ] >>
                 ELSE <<>>
    IN  IF i > Len(lines) THEN flush
        ELSE IF IsHeaderLine(lines[i])
        THEN flush \o SectionParagraphs(lines, i + 1, <<>>, i)
        ELSE IF lines[i] = <<>>
        THEN flush \o SectionParagraphs(lines, i + 1, <<>>, sec)
        ELSE SectionParagraphs(lines, i + 1, Append(run, lines[i]), sec)

\* the number of paragraphs in the chunks before chunk k
RECURSIVE ParagraphsBefore(_)
ParagraphsBefore(k) ==
    IF k <= 1 THEN 0
    ELSE ParagraphsBefore(k - 1) + Len(ParagraphsOf(c_out[k - 1].text))

\* the title a file name stands for: its words capitalised
FilenameTitle ==
    IF c_filename = F_hazing THEN <<"Hazing", " ", "Statement">>
    ELSE <<"Student", " ", "Conduct", " ", "Code">>

\* C25: in a multi-section file the paragraphs of a chunk all follow the
\* same header line, the chunk's section_title is the title of that header,
\* and no line of a chunk is a header line; in any other file a line of the
\* header pattern is content like any other and every chunk has the title
\* made from the file name.
C25_SectionsAndTitles ==
    c_pc = "done" =>
        IF c_filename \in MULTI_SECTION_FILES
        THEN LET norm == normalize_newlines(c_text)
                 doc == SectionParagraphs(norm, 1, <<>>, 0)
                 skipped == Len(doc) - Len(ChunkParagraphs(c_out))
             IN  /\ skipped >= 0
                 /\ \A k \in 1..Len(c_out) :
                       LET ps == ParagraphsOf(c_out[k].text)
                           first == skipped + ParagraphsBefore(k) + 1
                       IN  /\ \A j \in 1..Len(ps) :
                                 /\ doc[first + j - 1].paragraph = ps[j]
                                 /\ doc[first + j - 1].sec = doc[first].sec
                           /\ doc[first].sec > 0 =>
                                 c_out[k].section_title =
                                    ROMAN_HEADER_RE(strip(norm[doc[first].sec]))
                           /\ \A i \in 1..Len(c_out[k].text) :
                                 ~IsHeaderLine(c_out[k].text[i])
        ELSE /\ \A k \in 1..Len(c_out) : c_out[k].section_title = FilenameTitle
             /\ ChunkParagraphs(c_out) =
                   split_paragraphs(normalize_newlines(c_text), 1, <<>>)

\* C25 witness: a multi-section file with two header lines of different
\* titles, each followed by one paragraph; one chunk per section, titled by
\* its header, although the two paragraphs together are within max_chars.
C25_Witness ==
    /\ c_pc = "done"
    /\ c_filename \in MULTI_SECTION_FILES
    /\ Cardinality(HeaderLines) = 2
    /\ Len(c_out) = 2
    /\ c_out[1].section_title = <<"Fees">>
    /\ c_out[2].section_title = <<"Scope">>
    /\ TextLen(c_out[1].text) + 2 + TextLen(c_out[2].text) <= c_max_chars

(***************************************************************************)
(* Frame claims (checked under SpecAsk)                                    *)
(***************************************************************************)
\* what retrieve_chunks_for_query returns for user_q alone on the index as
\* loaded from the files, in the running process's configuration
RetrievedAlone(user_q) ==
    retrieve_chunks_for_query(EmbedReply(ollama_embed(user_q)),
        emb_file.content, questions_file.content,
        load_chunks(chunks_file.content), session.max_chunks, argsort_ties)

C27_SafeReproducesAsk ==
    out.prog = "answer" =>
        /\ out.score.chat_calls = out.ask.chat_calls
        /\ out.score.status = out.ask.status
        /\ (out.ask.status = "ok" /\ out.ask.chat_calls = <<>>)
              => /\ out.score.text = INSUFFICIENT
                 /\ out.ask.printed = << INSUFFICIENT \o <<"\n">> >>
        /\ (out.ask.status = "ok" /\ out.ask.chat_calls # <<>>)
              => /\ out.score.text = out.ask.printed[1]
                 /\ out.score.text = strip(out.chat.content)

\* C27 witness: the gate passes at max_sim = MIN_SIMILARITY with two chunks;
\* the backend's answer has white space around it; both made the one request
\* and the returned text is the printed, stripped answer.
C27_Witness ==
    /\ out.prog = "answer"
    /\ out.max_sim = MIN_SIMILARITY /\ Len(out.context_chunks) = 2
    /\ out.chat.ok /\ out.chat.content # strip(out.chat.content)
    /\ Len(out.score.chat_calls) = 1
    /\ out.score.text = out.ask.printed[1]
    /\ out.score.text # INSUFFICIENT

(***************************************************************************)
(* Gate claims (checked under Spec)                                        *)
(***************************************************************************)
\* whether the first context chunk of retrieval r is the owning chunk of one
\* of the top-k questions whose own similarity is at least MIN_SIMILARITY
PromptChunkClears(r) ==
    \E k \in 1..Len(r.top_indices) :
        /\ r.top_indices[k] <= Len(questions_file.content)
        /\ questions_file.content[r.top_indices[k]].chunk_id =
              r.context_chunks[1].chunk_id
        /\ r.sims[r.top_indices[k]] >= MIN_SIMILARITY

\* C28: whenever a generation request is made for a query, the chunk whose
\* text is in the prompt is the owning chunk of a top-k question whose
\* similarity to the query is at least MIN_SIMILARITY.
C28_PromptChunkClearsThreshold ==
    /\ (out.prog = "ask" /\ out.chat_calls # <<>>)
          => PromptChunkClears(out.retrieval)
    /\ out.prog = "score" =>
          \A k \in 1..Len(out.cases) :
              out.cases[k].chat_calls # <<>>
                 => PromptChunkClears(out.cases[k].retrieval)

\* the context chunks of the ask run cited under "Sources"
CitedChunks ==
    { out.retrieval.context_chunks[k] :
        k \in { j \in 1..Len(out.retrieval.context_chunks) :
                  \E i \in 1..Len(out.printed) :
                      out.printed[i] =
                         CitationLine(out.retrieval.context_chunks[j]) } }

\* the context chunks of the ask run whose text is in a generation request
PromptChunks ==
    { out.retrieval.context_chunks[k] :
        k \in { j \in 1..Len(out.retrieval.context_chunks) :
                  \E i \in 1..Len(out.chat_calls) :
                      out.chat_calls[i].prompt.excerpt =
                         out.retrieval.context_chunks[j].text } }

\* C29: with MAX_CHUNKS >= 1, the chunks cited in the Sources list of an
\* answer are exactly the chunks whose text was in that answer's prompt.
C29_CitedChunksWereSupplied ==
    (out.prog = "ask" /\ out.max_chunks >= 1 /\ HasSources(out.printed))
        => CitedChunks = PromptChunks


(***************************************************************************)
(* Lifecycle claims (checked under Spec)                                   *)
(***************************************************************************)
\* the persisted question records
PersistedQuestions(qfile) == {qfile.content[i] : i \in 1..Len(qfile.content)}

\* C30: after any sequence of ingestion and indexing runs, every persisted
\* question's chunk_id identifies a chunk of the persisted chunk table whose
\* text is the text the question was generated from: after every step each
\* question's chunk is in the chunk table, and a step that keeps the
\* question table keeps the text of every chunk a question points to.
C30_QuestionsKeepTheirChunk ==
    [][ \A q \in PersistedQuestions(questions_file') :
          /\ q.chunk_id \in DOMAIN load_chunks(chunks_file'.content)
          /\ (/\ questions_file' = questions_file
              /\ q.chunk_id \in DOMAIN load_chunks(chunks_file.content))
                => load_chunks(chunks_file'.content)[q.chunk_id].text
                     = load_chunks(chunks_file.content)[q.chunk_id].text ]_vars

====
